---- MODULE Spec2Model ----
(***************************************************************************)
(* A model of the signal-processing kernels of nussl: the DUET mask        *)
(* assignment (DUET.py), the greedy peak finders (DUET.py, Repet.py), the  *)
(* audio buffer arithmetic of both AudioSignal classes (AudioSignal.py,    *)
(* nussl/AudioSignal.py) and the REPET back end (Repet.py).                *)
(*                                                                         *)
(* Samples, scores and histogram values are integers: every operation the  *)
(* model covers is a comparison, an addition, a subtraction or a product,  *)
(* so nothing depends on the values being floating point.                  *)
(*                                                                         *)
(* Each component has its own variables and its own specification; the     *)
(* variables of the other components stay at their idle values.            *)
(***************************************************************************)
EXTENDS Integers, Sequences, FiniteSets, TLC

\* ------------------------------------------------------------------ bounds

\* DUET: the largest number of sources, the largest finite score, the
\* number of frequency rows of the spectrogram (DC row included).
MaxSources == 3
MaxScore == 1
Lf == 2

\* the spectrogram frames the model follows; every operation of the mask
\* loops is elementwise, two frames tell a per-row from a per-bin result
Frames == {1, 2}

\* ---------------------------------------------------------------- helpers

Max(a, b) == IF a >= b THEN a ELSE b
Min(a, b) == IF a <= b THEN a ELSE b

\* numpy arrays of two dimensions are sequences of rows
NumRows(M) == Len(M)
NumCols(M) == Len(M[1])
Size(M) == NumRows(M) * NumCols(M)

Matrices(rows, cols, vals) == [1..rows -> [1..cols -> vals]]

VARIABLES
    \* DUET.duet, lines 170-188
    numSources,     \* N
    srcIdx,         \* the loop variable i of the two loops
    bestsofar,      \* (Lf-1) x Lt, np.inf at the start
    bestind,        \* (Lf-1) x Lt, source index per bin
    Xm,             \* the masked spectrograms built so far, one per source
    duetPc

duetVars == <<numSources, srcIdx, bestsofar, bestind, Xm, duetPc>>

VARIABLES
    \* DUET.find_peaks (= Repet.FindPeaks) and DUET.find_peaks2
    input,          \* the data argument, np.mat(data): a matrix
    min_thr,
    min_dist,       \* find_peaks: a number; find_peaks2: <<Rmd, Cmd>>
    max_num,
    data,           \* the local data after thresholding, zeroed as peaks go
    Pi,             \* the peak indices, 0-based as in the source
    peakIdx,        \* the loop variable i
    peakPc

peakVars == <<input, min_thr, min_dist, max_num, data, Pi, peakIdx, peakPc>>

VARIABLES
    \* the two AudioSignal classes: nussl/AudioSignal.py ("nussl") and
    \* AudioSignal.py ("legacy")
    impl,
    selfSig,        \* the object the method is called on
    otherSig,       \* the argument of concat, + and -
    chanArg,        \* the argument n of get_channel / getChannel
    result,         \* what the call returned
    bufOp,          \* the method called
    bufPc,          \* "ready", then "returned" or "raised"
    before          \* <<selfSig, otherSig>> as they were before the call

bufVars == <<impl, selfSig, otherSig, chanArg, result, bufOp, bufPc, before>>

VARIABLES
    \* Repet.py
    Mixture,        \* self.Mixture, a legacy AudioSignal
    bkgd,           \* self.bkgd
    fgnd,           \* self.fgnd
    signals,        \* the list MakeAudioSignals returns
    repPc

repVars == <<Mixture, bkgd, fgnd, signals, repPc>>

VARIABLES
    \* DUET.twoDsmooth
    Mat,            \* the matrix to smooth
    Kernel,         \* the scalar kernel size
    SMAT,           \* the matrix returned
    smoothPc

smoothVars == <<Mat, Kernel, SMAT, smoothPc>>

VARIABLES
    \* DUET.duet, lines 104-131: the weighted histogram
    tfPoints,       \* the time-frequency points: alpha, delta and weight tfw
    adparam,        \* a_min, a_max, a_num, d_min, d_max, d_num
    hist,           \* H[0], then hist
    histPc

histVars == <<tfPoints, adparam, hist, histPc>>

VARIABLES
    \* DUET.duet as a whole: which steps a call went through
    mixture,        \* the argument x: [ndim, data]
    produced,       \* the results computed so far
    callError,      \* the exception that ended the call, "none" otherwise
    callPc

callVars == <<mixture, produced, callError, callPc>>

VARIABLES
    \* STFT / iSTFT of the two AudioSignal classes
    stftImpl,       \* "nussl" or "legacy"
    audio,          \* the stored array: channels, samples and what it holds
    nChannels,      \* legacy: the attribute set when the array was loaded
    stft_data,      \* stft_data / ComplexSpectrogramData: empty or its shape
    time,           \* self.time: what the time vector holds
    stftCalls,      \* the STFT calls made
    stftOp,         \* the last method called
    stftPc,         \* "ready", then "done" or "raised" after iSTFT
    stftBefore      \* <<audio, time>> before the last call

stftVars == <<stftImpl, audio, nChannels, stft_data, time, stftCalls, stftOp,
              stftPc, stftBefore>>

VARIABLES
    \* Repet.py: the attributes of an instance that Run reads and writes
    repType,                    \* self.type
    Nfft,                       \* self.WindowAttributes.Nfft
    SampleRate,                 \* self.SampleRate
    HighPassCutoff,             \* self.HighPassCutoff
    MinDistanceBetweenFrames,   \* self.MinDistanceBetweenFrames
    curMixture,                 \* which signal self.Mixture is
    maskOf,                     \* the repeating mask of each signal, per bin
    runs                        \* per Run: the signal, the parameters, the mask

runVars == <<repType, Nfft, SampleRate, HighPassCutoff, MinDistanceBetweenFrames,
             curMixture, maskOf, runs>>

VARIABLES
    \* Repet.FindRepeatingPeriod / REPET_org.rep_period
    beat_spectrum,  \* the argument b, lag 0 first
    min_period,
    max_period,
    period,         \* the returned period
    periodPc        \* "start", then "returned" or "raised"

periodVars == <<beat_spectrum, min_period, max_period, period, periodPc>>

VARIABLES
    \* DUET.py, the mask loop with the scores of all sources kept
    scoreAt,        \* scoreAt[i + 1][b]: the score of source i at bin b
    assignBest,     \* bestsofar
    assignInd,      \* bestind
    assignIdx,      \* the loop variable i
    assignPc        \* "loop", then "done"

assignVars == <<scoreAt, assignBest, assignInd, assignIdx, assignPc>>

VARIABLES
    \* Repet.ComputeRepeatingMaskBeat / REPET_org.rep_mask
    magV,           \* the argument V, Lf by Lt
    repP,           \* the argument p
    softMask,       \* the returned mask M
    maskPc          \* "start", then "returned"

maskVars == <<magV, repP, softMask, maskPc>>

VARIABLES
    \* Repet of type ORIGINAL: the period attributes and Run
    periodArg,      \* the constructor argument Period (s), <<>> for None
    Period,         \* self.Period
    MinPeriod,      \* self.MinPeriod
    MaxPeriod,      \* self.MaxPeriod
    BeatSpectrum,   \* the beat spectrum of the mixture
    RepeatingPeriod,\* self.RepeatingPeriod, the period the mask is built with
    origPc          \* "constructed", then "ran" or "raised"

origVars == <<periodArg, Period, MinPeriod, MaxPeriod, BeatSpectrum,
              RepeatingPeriod, origPc>>

vars == <<duetVars, peakVars, bufVars, repVars, smoothVars, histVars, callVars, stftVars, runVars, periodVars, assignVars, maskVars, origVars>>

\* ------------------------------------------------------------------- DUET

\* np.inf: above every finite score
Inf == MaxScore + 1

\* X1 and X2 have their DC row removed (DUET.py:89-90): the rows 1..Lf-1 of
\* the spectrogram. Xm has the rows 0..Lf-1, row 0 being DC.
NonDcRows == 1..(Lf - 1)
Bins == NonDcRows \X Frames
\* a score is finite or np.inf
Scores == 0..Inf

DuetIdle ==
    /\ numSources = 0
    /\ srcIdx = 0
    /\ bestsofar = <<>>
    /\ bestind = <<>>
    /\ Xm = <<>>
    /\ duetPc = "idle"

\* lines 171-172: bestsofar = inf * ones, bestind = zeros
DuetInit ==
    /\ numSources \in 1..MaxSources
    /\ srcIdx = 0
    /\ bestsofar = [b \in Bins |-> Inf]
    /\ bestind = [b \in Bins |-> 0]
    /\ Xm = <<>>
    /\ duetPc = "masks"

\* a mask that also takes the bins whose score equals the best so far
ScoreMaskOrEqual(score, best) == [b \in DOMAIN score |-> score[b] <= best[b]]

\* line 175: mask = (score < bestsofar)
ScoreMask(score, best) == [b \in DOMAIN score |-> score[b] < best[b]]

\* a mask that also takes the bins of the sources after i
SourceMaskOfAtLeast(ind, i) == [b \in Bins |-> ind[b] >= i]

\* line 183: mask = (bestind == i)
SourceMask(ind, i) == [b \in Bins |-> ind[b] = i]

\* lines 184-185: Xm = vstack([zeros((1, Lt)), demixed * mask]); the demixed
\* value (X1 + a e^{jwd} X2) / (1 + a^2) of a bin is 1 here, so an entry of
\* Xm is the mask value the bin was multiplied with.
MaskedSpectrogram(mask) ==
    [k \in 0..(Lf - 1) |-> [t \in Frames |->
        IF k = 0 THEN 0 ELSE IF mask[<<k, t>>] THEN 1 ELSE 0]]

\* one pass of the loop of lines 173-177; the score of source i is an input
ComputeMaskStep ==
    /\ duetPc = "masks"
    /\ srcIdx < numSources
    /\ \E score \in [Bins -> Scores] :
          LET mask == ScoreMask(score, bestsofar) IN
          /\ bestind' = [b \in Bins |-> IF mask[b] THEN srcIdx ELSE bestind[b]]
          /\ bestsofar' = [b \in Bins |-> IF mask[b] THEN score[b] ELSE bestsofar[b]]
    /\ IF srcIdx + 1 < numSources
          THEN /\ srcIdx' = srcIdx + 1
               /\ duetPc' = "masks"
          ELSE /\ srcIdx' = 0
               /\ duetPc' = "demix"
    /\ UNCHANGED <<numSources, Xm, peakVars, bufVars, repVars, smoothVars, histVars, callVars, stftVars, runVars, periodVars, assignVars, maskVars, origVars>>

\* one pass of the loop of lines 182-188
DemixStep ==
    /\ duetPc = "demix"
    /\ srcIdx < numSources
    /\ Xm' = Append(Xm, MaskedSpectrogram(SourceMask(bestind, srcIdx)))
    /\ srcIdx' = srcIdx + 1
    /\ duetPc' = IF srcIdx + 1 < numSources THEN "demix" ELSE "returned"
    /\ UNCHANGED <<numSources, bestsofar, bestind, peakVars, bufVars, repVars, smoothVars, histVars, callVars, stftVars, runVars, periodVars, assignVars, maskVars, origVars>>

DuetNext == ComputeMaskStep \/ DemixStep

\* ----------------------------------------------------------- peak finders

\* the longest vector find_peaks gets, the largest side of the matrix
\* find_peaks2 gets, the largest data value, distance and peak count
MaxLen == 4
MaxDim == 2
MaxVal == 2
MaxDist == 1
MaxPeaks == 3

PeakIdle ==
    /\ input = <<>>
    /\ min_thr = 0
    /\ min_dist = 0
    /\ max_num = 0
    /\ data = <<>>
    /\ Pi = <<>>
    /\ peakIdx = 0
    /\ peakPc = "idle"

\* entry (r, c) of a matrix, r and c 0-based as in numpy
At(M, r, c) == M[r + 1][c + 1]

Cells(M) == (0..(NumRows(M) - 1)) \X (0..(NumCols(M) - 1))

\* data >= min_thr, as 0/1
GeMask(M, thr) ==
    [r \in 1..NumRows(M) |-> [c \in 1..NumCols(M) |->
        IF M[r][c] >= thr THEN 1 ELSE 0]]

\* np.multiply(data, data >= min_thr): the elementwise product
Multiply(A, B) ==
    [r \in 1..NumRows(A) |-> [c \in 1..NumCols(A) |-> A[r][c] * B[r][c]]]

RECURSIVE DotFrom(_, _, _, _, _)
DotFrom(A, B, r, c, k) ==
    IF k > NumCols(A) THEN 0
    ELSE A[r][k] * B[k][c] + DotFrom(A, B, r, c, k + 1)

\* A * B of two np.matrix values: the matrix product (A's columns must be
\* B's rows, or numpy raises ValueError)
MatMul(A, B) ==
    [r \in 1..NumRows(A) |-> [c \in 1..NumCols(B) |-> DotFrom(A, B, r, c, 1)]]

\* np.size(np.nonzero(data)) of a matrix: np.nonzero gives one index array
\* per dimension, np.size counts the entries of both
NonzeroCount(M) == Cardinality({rc \in Cells(M) : At(M, rc[1], rc[2]) # 0})
NonzeroSize(M) == 2 * NonzeroCount(M)

RECURSIVE SumSeq(_)
SumSeq(s) == IF s = <<>> THEN 0 ELSE Head(s) + SumSeq(Tail(s))

RECURSIVE SumMat(_)
\* np.sum(data)
SumMat(M) == IF M = <<>> THEN 0 ELSE SumSeq(Head(M)) + SumMat(Tail(M))

MaxOf(M) ==
    CHOOSE v \in {At(M, rc[1], rc[2]) : rc \in Cells(M)} :
        \A rc \in Cells(M) : At(M, rc[1], rc[2]) <= v

\* np.argmax: the flat row-major index of the first largest entry
ArgMax(M) ==
    LET flat(rc) == rc[1] * NumCols(M) + rc[2]
        best == {flat(rc) : rc \in {x \in Cells(M) : At(M, x[1], x[2]) = MaxOf(M)}}
    IN  CHOOSE f \in best : \A g \in best : f <= g

\* np.unravel_index(flat, data.shape)
Unravel(M, flat) == <<flat \div NumCols(M), flat % NumCols(M)>>

\* the indices a Python slice lo:hi selects on an axis of length n: a
\* negative bound counts from the end, then both are clipped to 0..n
SliceBound(b, n) == IF b < 0 THEN Max(b + n, 0) ELSE Min(b, n)
SliceIndices(lo, hi, n) == SliceBound(lo, n)..(SliceBound(hi, n) - 1)

\* data[rows, cols] = 0
ZeroOut(M, rows, cols) ==
    [r \in 1..NumRows(M) |-> [c \in 1..NumCols(M) |->
        IF (r - 1) \in rows /\ (c - 1) \in cols THEN 0 ELSE M[r][c]]]

RECURSIVE NpSort(_)
\* np.sort: ascending
NpSort(s) ==
    IF s = <<>> THEN <<>>
    ELSE LET m == CHOOSE j \in 1..Len(s) : \A k \in 1..Len(s) : s[j] <= s[k]
         IN  <<s[m]>> \o NpSort([k \in 1..(Len(s) - 1) |->
                                    IF k < m THEN s[k] ELSE s[k + 1]])

\* ---- find_peaks, DUET.py:291-330 and Repet.py:245-284

PeakInit1 ==
    /\ \E n \in 1..MaxLen : input \in Matrices(1, n, 0..MaxVal)
    /\ min_thr \in 0..MaxVal
    /\ min_dist \in 0..MaxDist
    /\ max_num \in 1..MaxPeaks
    /\ data = <<>>
    /\ Pi = <<>>
    /\ peakIdx = 0
    /\ peakPc = "start"

\* lines 308-320: threshold, then the not-enough-peaks test
Threshold1 ==
    /\ peakPc = "start"
    /\ Pi' = [k \in 1..max_num |-> 0]
    /\ data' = Multiply(input, GeMask(input, min_thr))
    /\ peakIdx' = 0
    /\ peakPc' = IF NonzeroSize(data') < max_num THEN "raised" ELSE "loop"
    /\ UNCHANGED <<input, min_thr, min_dist, max_num, duetVars, bufVars, repVars, smoothVars, histVars, callVars, stftVars, runVars, periodVars, assignVars, maskVars, origVars>>

\* lines 321-326: one pass of the while loop
PickPeak1 ==
    /\ peakPc = "loop"
    /\ peakIdx < max_num
    /\ LET p == ArgMax(data)
           zeroed == SliceIndices(p - min_dist - 1, p + min_dist + 1, NumCols(data))
       IN  /\ Pi' = [Pi EXCEPT ![peakIdx + 1] = p]
           /\ data' = ZeroOut(data, {0}, zeroed)
    /\ peakIdx' = peakIdx + 1
    /\ peakPc' = IF SumMat(data') = 0 \/ peakIdx + 1 >= max_num
                    THEN "sort" ELSE "loop"
    /\ UNCHANGED <<input, min_thr, min_dist, max_num, duetVars, bufVars, repVars, smoothVars, histVars, callVars, stftVars, runVars, periodVars, assignVars, maskVars, origVars>>

\* lines 328-330
SortPeaks1 ==
    /\ peakPc = "sort"
    /\ Pi' = NpSort(Pi)
    /\ peakPc' = "returned"
    /\ UNCHANGED <<input, min_thr, min_dist, max_num, data, peakIdx, duetVars, bufVars, repVars, smoothVars, histVars, callVars, stftVars, runVars, periodVars, assignVars, maskVars, origVars>>

PeakNext1 == Threshold1 \/ PickPeak1 \/ SortPeaks1

\* ---- find_peaks2, DUET.py:247-288

PeakInit2 ==
    /\ \E r \in 1..MaxDim, c \in 1..MaxDim : input \in Matrices(r, c, 0..MaxVal)
    /\ min_thr \in 0..MaxVal
    /\ min_dist \in (0..MaxDist) \X (0..MaxDist)
    /\ max_num \in 1..MaxPeaks
    /\ data = <<>>
    /\ Pi = <<>>
    /\ peakIdx = 0
    /\ peakPc = "start"

\* lines 264-280: data * (data >= min_thr) is the product of two np.matrix
\* values; it raises when the matrix is not square
Threshold2 ==
    /\ peakPc = "start"
    /\ Pi' = [k \in 1..max_num |-> <<0, 0>>]
    /\ peakIdx' = 0
    /\ IF NumCols(input) # NumRows(input)
          THEN /\ data' = input
               /\ peakPc' = "raised"
          ELSE /\ data' = MatMul(input, GeMask(input, min_thr))
               /\ peakPc' = IF NonzeroSize(data') < max_num
                               THEN "raised" ELSE "loop"
    /\ UNCHANGED <<input, min_thr, min_dist, max_num, duetVars, bufVars, repVars, smoothVars, histVars, callVars, stftVars, runVars, periodVars, assignVars, maskVars, origVars>>

\* lines 281-288: one pass of the while loop; Pi is returned unsorted
PickPeak2 ==
    /\ peakPc = "loop"
    /\ peakIdx < max_num
    /\ LET p == Unravel(data, ArgMax(data))
           rows == SliceIndices(p[1] - min_dist[1] - 1, p[1] + min_dist[1] + 1,
                                NumRows(data))
           cols == SliceIndices(p[2] - min_dist[2] - 1, p[2] + min_dist[2] + 1,
                                NumCols(data))
       IN  /\ Pi' = [Pi EXCEPT ![peakIdx + 1] = p]
           /\ data' = ZeroOut(data, rows, cols)
    /\ peakIdx' = peakIdx + 1
    /\ peakPc' = IF SumMat(data') = 0 \/ peakIdx + 1 >= max_num
                    THEN "returned" ELSE "loop"
    /\ UNCHANGED <<input, min_thr, min_dist, max_num, duetVars, bufVars, repVars, smoothVars, histVars, callVars, stftVars, runVars, periodVars, assignVars, maskVars, origVars>>

PeakNext2 == Threshold2 \/ PickPeak2

\* --------------------------------------------------------- audio buffers

\* the most channels and samples of a buffer, the largest sample value
MaxChan == 2
MaxSamples == 3
MaxSample == 1

\* Constants.DEFAULT_SAMPLE_RATE, the rate a buffer gets when none is given;
\* the code only compares rates, so a rate is a name
DEFAULT_SAMPLE_RATE == "default"

\* the sample rates a buffer may have
Rates == {DEFAULT_SAMPLE_RATE, "other"}
SampleVals == 0..MaxSample

\* nussl AudioSignal: _audio_data is a float array [channels, samples]
\* (_CHAN = 0, _LEN = 1); num_channels is a property of its shape
NusslSignal(x, rate) == [audio_data |-> x, sample_rate |-> rate]

\* legacy AudioSignal: AudioData is [samples, channels]; SignalLength and
\* nChannels are attributes set when the array is loaded (lines 139-140)
LegacySignal(x, rate) ==
    [audio_data |-> x, sample_rate |-> rate,
     SignalLength |-> NumRows(x), nChannels |-> NumCols(x)]

NusslSignals(rates) ==
    UNION {{NusslSignal(x, r) : x \in Matrices(c, n, SampleVals), r \in rates} :
           c \in 1..MaxChan, n \in 1..MaxSamples}

LegacySignals(rates) ==
    UNION {{LegacySignal(x, r) : x \in Matrices(n, c, SampleVals), r \in rates} :
           c \in 1..MaxChan, n \in 1..MaxSamples}

SignalsOf(which, rates) ==
    IF which = "nussl" THEN NusslSignals(rates) ELSE LegacySignals(rates)

MakeSignal(which, x) ==
    IF which = "nussl" THEN NusslSignal(x, DEFAULT_SAMPLE_RATE)
    ELSE LegacySignal(x, DEFAULT_SAMPLE_RATE)

num_channels(which, sig) ==
    IF which = "nussl" THEN NumRows(sig.audio_data) ELSE sig.nChannels

\* sample t (1-based) of channel ch (1-based) of the stored array
SampleAt(which, x, ch, t) == IF which = "nussl" THEN x[ch][t] ELSE x[t][ch]
SamplesIn(which, x) == IF which = "nussl" THEN NumCols(x) ELSE NumRows(x)
ChannelsIn(which, x) == IF which = "nussl" THEN NumRows(x) ELSE NumCols(x)

Raised == [ok |-> FALSE, value |-> <<>>]
Returned(v) == [ok |-> TRUE, value |-> v]

\* combined[0:k] += sign * operand, numpy's in-place arithmetic on the rows
\* the slice selects: the operand is broadcast to the slice's shape (each of
\* its dimensions equal to the slice's, or 1), otherwise ValueError
InplaceAdd(combined, k, operand, sign) ==
    LET r == Cardinality(SliceIndices(0, k, NumRows(combined)))
        c == NumCols(combined)
        fits == /\ NumRows(operand) = r \/ NumRows(operand) = 1
                /\ NumCols(operand) = c \/ NumCols(operand) = 1
        bi(i) == IF NumRows(operand) = 1 THEN 1 ELSE i
        bj(j) == IF NumCols(operand) = 1 THEN 1 ELSE j
    IN  IF ~fits THEN Raised
        ELSE Returned([i \in 1..NumRows(combined) |-> [j \in 1..c |->
                 IF i <= r THEN combined[i][j] + sign * operand[bi(i)][bj(j)]
                 ELSE combined[i][j]]])

\* the body both __add__ (sign 1) and __sub__ (sign -1) share: the larger
\* array is copied, the other one is added to / subtracted from its head
Combine(a, b, sign) ==
    IF Size(a) > Size(b) THEN InplaceAdd(a, Size(b), b, sign)
    ELSE InplaceAdd(b, Size(a), a, sign)

\* the checks ahead of the arithmetic: the channel counts (both classes),
\* the sample rates (nussl only)
ArithRaises(which, a, b) ==
    \/ num_channels(which, a) # num_channels(which, b)
    \/ which = "nussl" /\ a.sample_rate # b.sample_rate

Arith(which, a, b, sign) ==
    IF ArithRaises(which, a, b) THEN Raised
    ELSE LET c == Combine(a.audio_data, b.audio_data, sign)
         IN  IF c.ok THEN Returned(MakeSignal(which, c.value)) ELSE Raised

\* self + other / self - other
AddSignals(which, a, b) == Arith(which, a, b, 1)
SubSignals(which, a, b) == Arith(which, a, b, -1)

\* np.concatenate((a, b)): along the first axis; the other axis must agree
Concatenate(a, b) ==
    IF NumCols(a) # NumCols(b) THEN Raised ELSE Returned(a \o b)

\* concat: the object after the call, or raised
ConcatSignals(which, a, b) ==
    IF num_channels(which, a) # num_channels(which, b) THEN Raised
    ELSE LET c == Concatenate(a.audio_data, b.audio_data)
         IN  IF c.ok THEN Returned([a EXCEPT !.audio_data = c.value])
             ELSE Raised

\* a[i] on an axis of length n: a negative index counts from the end
IndexOk(i, n) == -n <= i /\ i < n
PyIndex(i, n) == IF i < 0 THEN i + n ELSE i

\* get_channel(n) / getChannel(n)
ChannelGuard(which, sig, n) == which = "nussl" /\ n > num_channels(which, sig)

GetChannelOf(which, sig, n) ==
    LET x == sig.audio_data
        count == ChannelsIn(which, x)
    IN  IF ChannelGuard(which, sig, n) THEN Raised
        ELSE IF ~IndexOk(n - 1, count) THEN Raised
        ELSE Returned([t \in 1..SamplesIn(which, x) |->
                          SampleAt(which, x, PyIndex(n - 1, count) + 1, t)])

BufIdle ==
    /\ impl = "none"
    /\ selfSig = <<>>
    /\ otherSig = <<>>
    /\ chanArg = 0
    /\ result = <<>>
    /\ bufOp = "none"
    /\ bufPc = "idle"
    /\ before = <<>>

\* two buffers; the first one has the default rate
BufInit2 ==
    /\ impl \in {"nussl", "legacy"}
    /\ selfSig \in SignalsOf(impl, {DEFAULT_SAMPLE_RATE})
    /\ otherSig \in SignalsOf(impl, Rates)
    /\ chanArg = 0
    /\ result = <<>>
    /\ bufOp = "none"
    /\ bufPc = "ready"
    /\ before = <<selfSig, otherSig>>

\* one buffer
BufInit1 ==
    /\ impl \in {"nussl", "legacy"}
    /\ selfSig \in SignalsOf(impl, {DEFAULT_SAMPLE_RATE})
    /\ otherSig = <<>>
    /\ chanArg = 0
    /\ result = <<>>
    /\ bufOp = "none"
    /\ bufPc = "ready"
    /\ before = <<selfSig, otherSig>>

Finish(op, r) ==
    /\ bufOp' = op
    /\ bufPc' = IF r.ok THEN "returned" ELSE "raised"
    /\ result' = r.value

\* c = a + b
Add ==
    /\ bufPc = "ready"
    /\ Finish("add", AddSignals(impl, selfSig, otherSig))
    /\ UNCHANGED <<impl, selfSig, otherSig, chanArg, before, duetVars, peakVars, repVars, smoothVars, histVars, callVars, stftVars, runVars, periodVars, assignVars, maskVars, origVars>>

\* c = a - b
Sub ==
    /\ bufPc = "ready"
    /\ Finish("sub", SubSignals(impl, selfSig, otherSig))
    /\ UNCHANGED <<impl, selfSig, otherSig, chanArg, before, duetVars, peakVars, repVars, smoothVars, histVars, callVars, stftVars, runVars, periodVars, assignVars, maskVars, origVars>>

\* a += b: __iadd__ returns self + other and the name a is bound to it
IAdd ==
    /\ bufPc = "ready"
    /\ LET r == AddSignals(impl, selfSig, otherSig) IN
          /\ Finish("iadd", r)
          /\ selfSig' = IF r.ok THEN r.value ELSE selfSig
    /\ UNCHANGED <<impl, otherSig, chanArg, before, duetVars, peakVars, repVars, smoothVars, histVars, callVars, stftVars, runVars, periodVars, assignVars, maskVars, origVars>>

\* a -= b
ISub ==
    /\ bufPc = "ready"
    /\ LET r == SubSignals(impl, selfSig, otherSig) IN
          /\ Finish("isub", r)
          /\ selfSig' = IF r.ok THEN r.value ELSE selfSig
    /\ UNCHANGED <<impl, otherSig, chanArg, before, duetVars, peakVars, repVars, smoothVars, histVars, callVars, stftVars, runVars, periodVars, assignVars, maskVars, origVars>>

\* a.concat(b): changes a, returns nothing
Concat ==
    /\ bufPc = "ready"
    /\ LET r == ConcatSignals(impl, selfSig, otherSig) IN
          /\ bufOp' = "concat"
          /\ bufPc' = IF r.ok THEN "returned" ELSE "raised"
          /\ selfSig' = IF r.ok THEN r.value ELSE selfSig
    /\ UNCHANGED <<impl, otherSig, chanArg, result, before, duetVars, peakVars, repVars, smoothVars, histVars, callVars, stftVars, runVars, periodVars, assignVars, maskVars, origVars>>

\* a.get_channel(n)
GetChannel ==
    /\ bufPc = "ready"
    /\ \E n \in (-MaxChan - 1)..(MaxChan + 1) :
          /\ chanArg' = n
          /\ Finish("get_channel", GetChannelOf(impl, selfSig, n))
    /\ UNCHANGED <<impl, selfSig, otherSig, before, duetVars, peakVars, repVars, smoothVars, histVars, callVars, stftVars, runVars, periodVars, assignVars, maskVars, origVars>>

BufNext2 == Add \/ Sub \/ IAdd \/ ISub \/ Concat

BufNext1 == GetChannel

\* -------------------------------------- audio buffers: the sample values

\* peak_normalize, write_audio_to_file and truncate_samples are followed on
\* buffers whose float samples are the fractions n / Unit with |n| <= MaxNum
Unit == 2
MaxNum == 3

\* the shapes [channels, samples] of these buffers
PcmShapes == {<<1, 1>>, <<1, 2>>, <<2, 1>>, <<2, 2>>}

Abs(n) == IF n < 0 THEN -n ELSE n

RECURSIVE Gcd(_, _)
Gcd(a, b) == IF b = 0 THEN a ELSE Gcd(b, a % b)

\* a float sample: the fraction n / d in lowest terms, <<n, d>> with d > 0
Rat(n, d) == LET g == Gcd(Abs(n), d) IN <<n \div g, d \div g>>

RatAbs(q) == <<Abs(q[1]), q[2]>>
RatLess(p, q) == p[1] * q[2] < q[1] * p[2]
RatLeq(p, q) == p[1] * q[2] <= q[1] * p[2]

\* p / q for q > 0
RatDiv(p, q) == Rat(p[1] * q[2], p[2] * q[1])

PcmVals == {Rat(n, Unit) : n \in (-MaxNum)..MaxNum}

PcmSignals(which) ==
    UNION {{MakeSignal(which, x) : x \in Matrices(sh[1], sh[2], PcmVals)} :
           sh \in PcmShapes}

\* np.max(np.abs(x))
MaxAbs(x) ==
    LET all == {RatAbs(x[r][c]) : r \in 1..NumRows(x), c \in 1..NumCols(x)}
    IN  CHOOSE v \in all : \A w \in all : RatLeq(w, v)

\* a normalization that divides whenever max|x| > 0
PeakNormalizeAboveZero(x) ==
    IF RatLess(<<0, 1>>, MaxAbs(x))
       THEN [r \in 1..NumRows(x) |-> [c \in 1..NumCols(x) |->
                RatDiv(x[r][c], MaxAbs(x))]]
       ELSE x

\* peak_normalize / PeakNormalize: the array the object holds afterwards
peak_normalize(x) ==
    LET max_val == <<1, 1>>
        max_signal == MaxAbs(x)
    IN  IF RatLess(max_val, max_signal)
           THEN [r \in 1..NumRows(x) |-> [c \in 1..NumCols(x) |->
                    RatDiv(x[r][c], max_signal)]]
           ELSE x

\* Constants.DEFAULT_BIT_DEPTH
DEFAULT_BIT_DEPTH == 16

\* the range of numpy's int16
Int16Min == -(2 ^ 15)
Int16Max == 2 ^ 15 - 1

\* np.multiply(s, k): the product of a float sample and an integer
RatTimes(q, k) == Rat(q[1] * k, q[2])

\* the integer part of a float, towards zero
Trunc(q) == IF q[1] >= 0 THEN q[1] \div q[2] ELSE -((-q[1]) \div q[2])

\* astype('int16') of a float: the integer part when it fits int16. When it
\* does not fit, the C conversion numpy compiles to is undefined: a build
\* either keeps the low 16 bits or saturates.
CastModes == {"wrap", "saturate"}
Wrap16(v) == ((v + 2 ^ 15) % (2 ^ 16)) - 2 ^ 15
Saturate16(v) == Max(Int16Min, Min(v, Int16Max))
AsInt16(q, mode) ==
    LET v == Trunc(q)
    IN  IF Int16Min <= v /\ v <= Int16Max THEN v
        ELSE IF mode = "wrap" THEN Wrap16(v) ELSE Saturate16(v)

\* audio_output.T
Transpose(x) == [c \in 1..NumCols(x) |-> [r \in 1..NumRows(x) |-> x[r][c]]]

\* one buffer with fractional samples
BufInitPcm ==
    /\ impl \in {"nussl", "legacy"}
    /\ selfSig \in PcmSignals(impl)
    /\ otherSig = <<>>
    /\ chanArg = 0
    /\ result = <<>>
    /\ bufOp = "none"
    /\ bufPc = "ready"
    /\ before = <<selfSig, otherSig>>

\* a.peak_normalize() / a.PeakNormalize(): changes a, returns nothing
PeakNormalize ==
    /\ bufPc = "ready"
    /\ selfSig' = [selfSig EXCEPT !.audio_data = peak_normalize(selfSig.audio_data)]
    /\ bufOp' = "peak_normalize"
    /\ bufPc' = "returned"
    /\ UNCHANGED <<impl, otherSig, chanArg, result, before, duetVars, peakVars, repVars, smoothVars, histVars, callVars, stftVars, runVars, periodVars, assignVars, maskVars, origVars>>

\* a.write_audio_to_file(path): the object is peak-normalized in place, the
\* array handed to wav.write is kept in result
WriteAudioToFile ==
    /\ bufPc = "ready"
    /\ impl = "nussl"
    /\ LET normed == peak_normalize(selfSig.audio_data) IN
          /\ selfSig' = [selfSig EXCEPT !.audio_data = normed]
          /\ \E mode \in CastModes :
                result' = Transpose(
                    [r \in 1..NumRows(normed) |-> [c \in 1..NumCols(normed) |->
                        AsInt16(RatTimes(normed[r][c], 2 ^ DEFAULT_BIT_DEPTH), mode)]])
    /\ bufOp' = "write_audio_to_file"
    /\ bufPc' = "returned"
    /\ UNCHANGED <<impl, otherSig, chanArg, before, duetVars, peakVars, repVars, smoothVars, histVars, callVars, stftVars, runVars, periodVars, assignVars, maskVars, origVars>>

\* self._audio_data[0: n_samples]: a slice of the first axis
HeadRows(x, n) ==
    LET keep == SliceIndices(0, n, NumRows(x))
    IN  [r \in 1..Cardinality(keep) |-> x[r]]

\* a.truncate_samples(n)
TruncateSamples ==
    /\ bufPc = "ready"
    /\ impl = "nussl"
    /\ \E n \in 0..(SamplesIn(impl, selfSig.audio_data) + 1) :
          /\ chanArg' = n
          /\ IF n > SamplesIn(impl, selfSig.audio_data)
                THEN /\ bufPc' = "raised"
                     /\ selfSig' = selfSig
                ELSE /\ bufPc' = "returned"
                     /\ selfSig' = [selfSig EXCEPT
                                       !.audio_data = HeadRows(selfSig.audio_data, n)]
    /\ bufOp' = "truncate_samples"
    /\ UNCHANGED <<impl, otherSig, result, before, duetVars, peakVars, repVars, smoothVars, histVars, callVars, stftVars, runVars, periodVars, assignVars, maskVars, origVars>>

BufNextPcm == PeakNormalize \/ WriteAudioToFile \/ TruncateSamples

\* ------------------------------------------------------------------ REPET

RepetIdle ==
    /\ Mixture = <<>>
    /\ bkgd = <<>>
    /\ fgnd = <<>>
    /\ signals = <<>>
    /\ repPc = "idle"

\* Repet(audioSignal): the mixture is a legacy AudioSignal (Repet.py:28)
RepetInit ==
    /\ Mixture \in LegacySignals({DEFAULT_SAMPLE_RATE})
    /\ bkgd = <<>>
    /\ fgnd = <<>>
    /\ signals = <<>>
    /\ repPc = "constructed"

\* Run, lines 103-139: self.bkgd is np.zeros_like(self.Mixture.AudioData),
\* filled row by row from the inverse STFT of the masked spectrogram, then
\* wrapped in an AudioSignal. The STFT is outside the model: the background
\* is any array of the mixture's shape.
Run ==
    /\ repPc = "constructed"
    /\ \E y \in Matrices(NumRows(Mixture.audio_data), NumCols(Mixture.audio_data),
                         SampleVals) :
          bkgd' = LegacySignal(y, DEFAULT_SAMPLE_RATE)
    /\ repPc' = "ran"
    /\ UNCHANGED <<Mixture, fgnd, signals, duetVars, peakVars, bufVars, smoothVars, histVars, callVars, stftVars, runVars, periodVars, assignVars, maskVars, origVars>>

\* MakeAudioSignals, lines 400-402
MakeAudioSignals ==
    /\ repPc = "ran"
    /\ LET d == SubSignals("legacy", Mixture, bkgd) IN
          IF d.ok
             THEN /\ fgnd' = d.value
                  /\ signals' = <<bkgd, d.value>>
                  /\ repPc' = "made"
             ELSE /\ repPc' = "raised"
                  /\ UNCHANGED <<fgnd, signals>>
    /\ UNCHANGED <<Mixture, bkgd, duetVars, peakVars, bufVars, smoothVars, histVars, callVars, stftVars, runVars, periodVars, assignVars, maskVars, origVars>>

RepetNext == Run \/ MakeAudioSignals

\* ------------------------------------------------------------- twoDsmooth

\* the largest side of the matrix, its largest entry, the largest kernel size
MaxSmoothDim == 3
MaxEntry == 1
MaxKernel == 3

SmoothIdle ==
    /\ Mat = <<>>
    /\ Kernel = 0
    /\ SMAT = <<>>
    /\ smoothPc = "idle"

RatAdd(p, q) == Rat(p[1] * q[2] + q[1] * p[2], p[2] * q[2])
RatMul(p, q) == Rat(p[1] * q[1], p[2] * q[2])

\* twoDsmooth(Mat, Kernel) is called with a float matrix and a scalar
SmoothInit ==
    /\ \E r \in 1..MaxSmoothDim, c \in 1..MaxSmoothDim :
          Mat \in Matrices(r, c, {Rat(v, 1) : v \in 0..MaxEntry})
    /\ Kernel \in 1..MaxKernel
    /\ SMAT = <<>>
    /\ smoothPc = "start"

\* line 214: np.ones((Kernel, Kernel)) / Kernel ** 2
AveragingKernel(k) == [i \in 1..k |-> [j \in 1..k |-> Rat(1, k * k)]]

\* line 221: signal.convolve2d(Kmat, np.ones((2, 1))) / 2, one row more
ConvolveRows(K) ==
    [i \in 1..(NumRows(K) + 1) |-> [j \in 1..NumCols(K) |->
        RatDiv(RatAdd(IF i > 1 THEN K[i - 1][j] ELSE <<0, 1>>,
                      IF i <= NumRows(K) THEN K[i][j] ELSE <<0, 1>>),
               <<2, 1>>)]]

\* line 225: signal.convolve2d(Kmat, np.ones((1, 2))) / 2, one column more
ConvolveCols(K) ==
    [i \in 1..NumRows(K) |-> [j \in 1..(NumCols(K) + 1) |->
        RatDiv(RatAdd(IF j > 1 THEN K[i][j - 1] ELSE <<0, 1>>,
                      IF j <= NumCols(K) THEN K[i][j] ELSE <<0, 1>>),
               <<2, 1>>)]]

\* lines 219-226: make Kmat have odd dimensions
OddKernel(K) ==
    LET rowsOdd == IF NumRows(K) % 2 = 0 THEN ConvolveRows(K) ELSE K
    IN  IF NumCols(rowsOdd) % 2 = 0 THEN ConvolveCols(rowsOdd) ELSE rowsOdd

\* Mat[i, j] with numpy's indices: 0-based, negative from the end
Entry(M, i, j) == M[PyIndex(i, NumRows(M)) + 1][PyIndex(j, NumCols(M)) + 1]

\* lines 235-239: the entry (a, b), 1-based, of the augmented matrix; its
\* lower left corner is filled with Mat[-1, 1]
AugEntry(M, copyrow, copycol, a, b) ==
    LET R == NumRows(M)
        C == NumCols(M)
        i == a - copyrow - 1
        j == b - copycol - 1
    IN  IF i < 0 THEN
            IF j < 0 THEN Entry(M, 0, 0)
            ELSE IF j >= C THEN Entry(M, 0, -1)
            ELSE Entry(M, 0, j)
        ELSE IF i >= R THEN
            IF j < 0 THEN Entry(M, -1, 1)
            ELSE IF j >= C THEN Entry(M, -1, -1)
            ELSE Entry(M, -1, j)
        ELSE
            IF j < 0 THEN Entry(M, i, 0)
            ELSE IF j >= C THEN Entry(M, i, -1)
            ELSE Entry(M, i, j)

AugMat(M, copyrow, copycol) ==
    [a \in 1..(NumRows(M) + 2 * copyrow) |->
        [b \in 1..(NumCols(M) + 2 * copycol) |-> AugEntry(M, copyrow, copycol, a, b)]]

RECURSIVE RatSum(_)
RatSum(s) == IF s = <<>> THEN <<0, 1>> ELSE RatAdd(Head(s), RatSum(Tail(s)))

\* line 242: signal.convolve2d(augMat, Kmat[::-1, ::-1], mode='valid'): the
\* sum of the kernel-sized window at (i, j) weighted by Kmat
ConvolveValid(A, K) ==
    [i \in 1..(NumRows(A) - NumRows(K) + 1) |->
        [j \in 1..(NumCols(A) - NumCols(K) + 1) |->
            RatSum([u \in 1..NumRows(K) |->
                RatSum([v \in 1..NumCols(K) |->
                    RatMul(A[i + u - 1][j + v - 1], K[u][v])])])]]

\* twoDsmooth(Mat, Kernel) for a scalar Kernel: Mat[-1, 1] is evaluated
\* whatever the kernel is and raises IndexError on a one-column matrix
twoDsmooth(M, k) ==
    LET Kmat == OddKernel(AveragingKernel(k))
        copyrow == NumRows(Kmat) \div 2
        copycol == NumCols(Kmat) \div 2
    IN  IF ~IndexOk(1, NumCols(M)) THEN Raised
        ELSE Returned(ConvolveValid(AugMat(M, copyrow, copycol), Kmat))

TwoDSmooth ==
    /\ smoothPc = "start"
    /\ LET r == twoDsmooth(Mat, Kernel) IN
          /\ SMAT' = r.value
          /\ smoothPc' = IF r.ok THEN "returned" ELSE "raised"
    /\ UNCHANGED <<Mat, Kernel, duetVars, peakVars, bufVars, repVars, histVars, callVars, stftVars, runVars, periodVars, assignVars, maskVars, origVars>>

SmoothNext == TwoDSmooth

\* --------------------------------------------------------- DUET histogram

\* the largest alpha / delta estimate and the largest weight
MaxCoord == 1
MaxWeight == 1

\* the numbers of points of a call and of bins of an axis
PointCounts == {1, 2}
BinCounts == {1, 2}

HistIdle ==
    /\ tfPoints = <<>>
    /\ adparam = <<>>
    /\ hist = <<>>
    /\ histPc = "idle"

\* the value IEEE division gives for 0 / 0
NaN == <<0, 0>>

TfPoint == [alpha : 0..MaxCoord, delta : 0..MaxCoord, tfw : 0..MaxWeight]

\* the ranges lie around the estimates or cut some of them off
AdParams ==
    {p \in [a_min : (-1)..MaxCoord, a_max : 0..(MaxCoord + 1), a_num : BinCounts,
            d_min : (-1)..MaxCoord, d_max : 0..(MaxCoord + 1), d_num : BinCounts] :
        p.a_min < p.a_max /\ p.d_min < p.d_max}

\* the state at line 104: alpha, delta and the weights are computed
HistInit ==
    /\ \E n \in PointCounts : tfPoints \in [1..n -> TfPoint]
    /\ adparam \in AdParams
    /\ hist = <<>>
    /\ histPc = "start"

\* a premask that keeps the points on the borders of the ranges
ad_premask_closed(pt, p) ==
    /\ p.a_min <= pt.alpha /\ pt.alpha <= p.a_max
    /\ p.d_min <= pt.delta /\ pt.delta <= p.d_max

\* lines 110-112: only the points strictly inside both ranges count
ad_premask(pt, p) ==
    /\ p.a_min < pt.alpha /\ pt.alpha < p.a_max
    /\ p.d_min < pt.delta /\ pt.delta < p.d_max

\* np.histogram2d: the bin (0-based) of the value v on an axis of num equal
\* bins over [lo, hi]; the last bin takes v = hi
BinOf(v, lo, hi, num) == Min(((v - lo) * num) \div (hi - lo), num - 1)

RECURSIVE SumWeights(_, _, _, _)
SumWeights(pts, p, a, d) ==
    IF pts = <<>> THEN 0
    ELSE (IF /\ ad_premask(Head(pts), p)
             /\ BinOf(Head(pts).alpha, p.a_min, p.a_max, p.a_num) = a
             /\ BinOf(Head(pts).delta, p.d_min, p.d_max, p.d_num) = d
          THEN Head(pts).tfw ELSE 0)
         + SumWeights(Tail(pts), p, a, d)

\* lines 120-121: H[0], the a_num x d_num sums of weights
Histogram2d(pts, p) ==
    [a \in 1..p.a_num |-> [d \in 1..p.d_num |->
        Rat(SumWeights(pts, p, a - 1, d - 1), 1)]]

HasNaN(M) == \E r \in 1..NumRows(M) : \E c \in 1..NumCols(M) : M[r][c] = NaN

\* M.max(): NaN when an entry is NaN
RatMax(M) ==
    IF HasNaN(M) THEN NaN
    ELSE LET all == {M[r][c] : r \in 1..NumRows(M), c \in 1..NumCols(M)}
         IN  CHOOSE v \in all : \A w \in all : RatLeq(w, v)

\* p / q of two floats: 0 / 0 and every quotient with a NaN is NaN (the
\* entries of a histogram are never negative, so q = 0 means p = 0)
FloatDiv(p, q) ==
    IF p = NaN \/ q = NaN \/ q[1] = 0 THEN NaN ELSE RatDiv(p, q)

\* lines 123 and 131: hist / hist.max()
DivideByMax(M) ==
    [r \in 1..NumRows(M) |-> [c \in 1..NumCols(M) |-> FloatDiv(M[r][c], RatMax(M))]]

\* line 128: twoDsmooth(hist, 3); every sum with a NaN is NaN
SmoothHist(M) ==
    IF HasNaN(M)
       THEN IF ~IndexOk(1, NumCols(M)) THEN Raised
            ELSE Returned([r \in 1..NumRows(M) |-> [c \in 1..NumCols(M) |-> NaN]])
       ELSE twoDsmooth(M, 3)

\* lines 114-121
BuildHistogram ==
    /\ histPc = "start"
    /\ hist' = Histogram2d(tfPoints, adparam)
    /\ histPc' = "built"
    /\ UNCHANGED <<tfPoints, adparam, duetVars, peakVars, bufVars, repVars, smoothVars, callVars, stftVars, runVars, periodVars, assignVars, maskVars, origVars>>

\* line 123
NormalizeHist ==
    /\ histPc = "built"
    /\ hist' = DivideByMax(hist)
    /\ histPc' = "normalized"
    /\ UNCHANGED <<tfPoints, adparam, duetVars, peakVars, bufVars, repVars, smoothVars, callVars, stftVars, runVars, periodVars, assignVars, maskVars, origVars>>

\* line 128
SmoothHistogram ==
    /\ histPc = "normalized"
    /\ LET r == SmoothHist(hist) IN
          /\ hist' = IF r.ok THEN r.value ELSE hist
          /\ histPc' = IF r.ok THEN "smoothed" ELSE "raised"
    /\ UNCHANGED <<tfPoints, adparam, duetVars, peakVars, bufVars, repVars, smoothVars, callVars, stftVars, runVars, periodVars, assignVars, maskVars, origVars>>

\* line 131
RenormalizeHist ==
    /\ histPc = "smoothed"
    /\ hist' = DivideByMax(hist)
    /\ histPc' = "renormalized"
    /\ UNCHANGED <<tfPoints, adparam, duetVars, peakVars, bufVars, repVars, smoothVars, callVars, stftVars, runVars, periodVars, assignVars, maskVars, origVars>>

HistNext == BuildHistogram \/ NormalizeHist \/ SmoothHistogram \/ RenormalizeHist

\* ------------------------------------------------- DUET: the steps of duet

\* the most channels and samples of the mixture handed to duet
MaxMixChan == 3
MaxMixLen == 2

CallIdle ==
    /\ mixture = <<>>
    /\ produced = {}
    /\ callError = "none"
    /\ callPc = "idle"

\* x is a channels x samples array (ndim 2) or a vector of samples (ndim 1,
\* its samples kept as the one row of data)
Mixtures ==
    UNION {{[ndim |-> 2, data |-> d] : d \in Matrices(c, n, 0..1)} :
              c \in 1..MaxMixChan, n \in 1..MaxMixLen}
    \cup UNION {{[ndim |-> 1, data |-> d] : d \in Matrices(1, n, 0..1)} :
                   n \in 1..MaxMixLen}

NumMixChannels(m) == IF m.ndim = 1 THEN 1 ELSE NumRows(m.data)

CallInit ==
    /\ mixture \in Mixtures
    /\ produced = {}
    /\ callError = "none"
    /\ callPc = "called"

\* x[i, :]: IndexError on a vector (too many indices) and on a row that is
\* not there
RowIndexOk(m, i) == m.ndim = 2 /\ IndexOk(i, NumRows(m.data))

\* lines 86-92: the STFT of x[0, :] and of x[1, :]
ComputeSpectrograms ==
    /\ callPc = "called"
    /\ IF RowIndexOk(mixture, 0) /\ RowIndexOk(mixture, 1)
          THEN /\ callPc' = "spectrograms"
               /\ produced' = produced \cup {"spectrograms"}
               /\ callError' = "none"
          ELSE /\ callPc' = "raised"
               /\ produced' = produced
               /\ callError' = "IndexError"
    /\ UNCHANGED <<mixture, duetVars, peakVars, bufVars, repVars, smoothVars, histVars, stftVars, runVars, periodVars, assignVars, maskVars, origVars>>

\* lines 95-131: alpha, delta, the weights and the smoothed histogram
MakeHistogram ==
    /\ callPc = "spectrograms"
    /\ callPc' = "histogram"
    /\ produced' = produced \cup {"histogram"}
    /\ UNCHANGED <<mixture, callError, duetVars, peakVars, bufVars, repVars, smoothVars, histVars, stftVars, runVars, periodVars, assignVars, maskVars, origVars>>

\* lines 157-168: find_peaks2 returns the peaks or raises ValueError
LocatePeaks ==
    /\ callPc = "histogram"
    /\ \/ /\ callPc' = "peaks"
          /\ produced' = produced \cup {"peaks"}
          /\ callError' = "none"
       \/ /\ callPc' = "raised"
          /\ produced' = produced
          /\ callError' = "ValueError"
    /\ UNCHANGED <<mixture, duetVars, peakVars, bufVars, repVars, smoothVars, histVars, stftVars, runVars, periodVars, assignVars, maskVars, origVars>>

\* lines 170-193: the masks and the demixed signals, then return
SeparateSources ==
    /\ callPc = "peaks"
    /\ callPc' = "returned"
    /\ produced' = produced \cup {"masks", "xhat"}
    /\ UNCHANGED <<mixture, callError, duetVars, peakVars, bufVars, repVars, smoothVars, histVars, stftVars, runVars, periodVars, assignVars, maskVars, origVars>>

CallNext == ComputeSpectrograms \/ MakeHistogram \/ LocatePeaks \/ SeparateSources

\* ----------------------------------------------------------- STFT / iSTFT

\* the longest signal, the window length and the most STFT calls
MaxStftLen == 8
WinLen == 4
MaxStftCalls == 2

StftIdle ==
    /\ stftImpl = "none"
    /\ audio = <<>>
    /\ nChannels = 0
    /\ stft_data = <<>>
    /\ time = "none"
    /\ stftCalls = 0
    /\ stftOp = "none"
    /\ stftPc = "idle"
    /\ stftBefore = <<>>

\* the stored array by its shape; "original" samples are the ones loaded
Audio(c, n, what) == [channels |-> c, samples |-> n, content |-> what]

\* np.array([]): no spectrogram data
NoStft == <<>>

\* an AudioSignal made from an array, no stft handed to the constructor
StftInit ==
    /\ stftImpl \in {"nussl", "legacy"}
    /\ \E c \in 1..MaxChan, n \in 1..MaxStftLen : audio = Audio(c, n, "original")
    /\ nChannels = audio.channels
    /\ stft_data = NoStft
    /\ time = "original"
    /\ stftCalls = 0
    /\ stftOp = "none"
    /\ stftPc = "ready"
    /\ stftBefore = <<audio, time>>

\* legacy: overlapSamp = ceil(overlapRatio * windowLength), overlapRatio 0.5
HopLen == WinLen - (WinLen + 1) \div 2

\* the frames of the STFT of n samples: ceil(max(0, n - L) / H) + 1
StftFrames(n) == (Max(0, n - WinLen) + HopLen - 1) \div HopLen + 1

\* the samples the inverse STFT of m frames returns: (m - 1) * H + L
IstftLength(m) == (m - 1) * HopLen + WinLen

\* the channels the loops of STFT and iSTFT run over
LoopChannels == IF stftImpl = "nussl" THEN audio.channels ELSE nChannels

\* stft(): stft_data is replaced. STFT(): the spectrogram of each channel
\* is stacked behind the data that is already there
DoStft ==
    /\ stftPc = "ready"
    /\ stftCalls < MaxStftCalls
    /\ stftCalls' = stftCalls + 1
    /\ stft_data' =
          IF stftImpl = "nussl" \/ stft_data = NoStft
             THEN [channels |-> LoopChannels, frames |-> StftFrames(audio.samples)]
             ELSE [stft_data EXCEPT !.channels = @ + LoopChannels]
    /\ stftOp' = "stft"
    /\ stftBefore' = <<audio, time>>
    /\ UNCHANGED <<stftImpl, audio, nChannels, time, stftPc,
                   duetVars, peakVars, bufVars, repVars, smoothVars, histVars, callVars, runVars, periodVars, assignVars, maskVars, origVars>>

\* the layouts f_istft may return its signal in: a vector, one row or
\* one column
IstftLayouts == {"vector", "row", "column"}

\* iSTFT() of the legacy class, whose array is samples by channels: every
\* pass of the loop inverts the whole spectrogram, the transposed results
\* are joined with np.hstack and a vector becomes one column
LegacyIstftAudio(layout) ==
    LET n == IstftLength(stft_data.frames)
    IN  CASE layout = "vector" -> Audio(1, nChannels * n, "reconstructed")
          [] layout = "row" -> Audio(nChannels, n, "reconstructed")
          [] layout = "column" -> Audio(nChannels * n, 1, "reconstructed")

\* the stored array after istft() clears it before looking at stft_data
IstftAudioCleared(layout) ==
    IF stftImpl = "nussl" \/ stft_data = NoStft THEN Audio(1, 0, "empty")
    ELSE LegacyIstftAudio(layout)

\* the stored array after istft() / iSTFT(): untouched when the size check
\* raises. nussl: audio_data = np.array([]) becomes one channel of no
\* sample, then self.window_attributes, which no code sets, is read
IstftAudio(layout) ==
    IF stft_data = NoStft THEN audio
    ELSE IF stftImpl = "nussl" THEN Audio(1, 0, "empty")
    ELSE LegacyIstftAudio(layout)

\* istft() / iSTFT()
DoIstft ==
    /\ stftPc = "ready"
    /\ stftOp' = "istft"
    /\ stftBefore' = <<audio, time>>
    /\ \E layout \in IstftLayouts : audio' = IstftAudio(layout)
    /\ IF stft_data = NoStft \/ stftImpl = "nussl"
          THEN /\ stftPc' = "raised"
               /\ UNCHANGED time
          ELSE /\ time' = "reconstructed"
               /\ stftPc' = "done"
    /\ UNCHANGED <<stftImpl, nChannels, stft_data, stftCalls,
                   duetVars, peakVars, bufVars, repVars, smoothVars, histVars, callVars, runVars, periodVars, assignVars, maskVars, origVars>>

StftNext == DoStft \/ DoIstft

\* ---------------------------------------------------- Repet: repeated Run

\* the largest FFT size, sample rate, cutoff (Hz), minimum distance (s) and
\* the most runs of one instance
MaxNfft == 5
MaxRate == 4
MaxCutoff == 4
MaxMinDist == 1
MaxRuns == 2

RunIdle ==
    /\ repType = "none"
    /\ Nfft = 0
    /\ SampleRate = 0
    /\ HighPassCutoff = 0
    /\ MinDistanceBetweenFrames = 0
    /\ curMixture = "none"
    /\ maskOf = <<>>
    /\ runs = <<>>

\* RepetType
RepetTypes == {"original", "sim"}

\* the signals self.Mixture is set to
Mixes == {"a", "b"}

\* the one-sided bins of the spectrogram
NumBins(nfft) == nfft \div 2 + 1

\* Repet(audioSignal, Type, windowAttributes, sampleRate, ..., HighPassCutoff)
RunInit ==
    /\ repType \in RepetTypes
    /\ Nfft \in 4..MaxNfft
    /\ SampleRate \in 1..MaxRate
    /\ HighPassCutoff \in 1..MaxCutoff
    /\ MinDistanceBetweenFrames \in 0..MaxMinDist
    /\ curMixture \in Mixes
    /\ maskOf \in [Mixes -> [0..(NumBins(Nfft) - 1) -> 0..1]]
    /\ runs = <<>>

\* np.ceil(n / d), n >= 0 and d > 0
Ceil(n, d) == (n + d - 1) \div d

\* np.round(n / d), halves to the even neighbour
Round(n, d) ==
    LET q == n \div d
        r == n % d
    IN  IF 2 * r < d THEN q
        ELSE IF 2 * r > d THEN q + 1
        ELSE IF q % 2 = 0 THEN q ELSE q + 1

\* the cutoff in bins: ceil(HighPassCutoff * (Nfft - 1) / SampleRate)
CutoffBins(cutoff) == Ceil(cutoff * (Nfft - 1), SampleRate)

\* the window overlap in samples
WindowOverlap == Nfft \div 2

\* _doRepetSim: round(MinDistanceBetweenFrames * SampleRate / ovp)
MinDistanceFrames(d) == Round(d * SampleRate, WindowOverlap)

\* a high pass that starts at the DC row: RepMask[0:cutoff, :] = 1
HighPassMaskFromDc(m, cutoff) ==
    [f \in DOMAIN m |-> IF f < cutoff THEN 1 ELSE m[f]]

\* RepMask[1:cutoff, :] = 1 on a mask
HighPassMask(m, cutoff) ==
    [f \in DOMAIN m |-> IF 1 <= f /\ f < cutoff THEN 1 ELSE m[f]]

\* the mask a Run applies: the cutoff attribute is converted on every Run
RunMask(cutoff) == HighPassMask(maskOf[curMixture], CutoffBins(cutoff))

\* Run: HighPassCutoff and, for REPET-SIM, MinDistanceBetweenFrames are
\* overwritten with their converted values. The mask of the median filter
\* is held the same for a signal; the high pass is applied to it
RepetRun ==
    /\ repType # "none"
    /\ Len(runs) < MaxRuns
    /\ HighPassCutoff' = CutoffBins(HighPassCutoff)
    /\ MinDistanceBetweenFrames' =
          IF repType = "sim" THEN MinDistanceFrames(MinDistanceBetweenFrames)
          ELSE MinDistanceBetweenFrames
    /\ runs' = Append(runs, [mix |-> curMixture,
                             cutoff |-> HighPassCutoff',
                             minDist |-> MinDistanceBetweenFrames',
                             mask |-> RunMask(HighPassCutoff)])
    /\ UNCHANGED <<repType, Nfft, SampleRate, curMixture, maskOf,
                   duetVars, peakVars, bufVars, repVars, smoothVars, histVars, callVars, stftVars, periodVars, assignVars, maskVars, origVars>>

\* the input signal of the instance is replaced
SetMixture ==
    /\ repType # "none"
    /\ \E m \in Mixes \ {curMixture} : curMixture' = m
    /\ UNCHANGED <<repType, Nfft, SampleRate, HighPassCutoff, MinDistanceBetweenFrames,
                   maskOf, runs,
                   duetVars, peakVars, bufVars, repVars, smoothVars, histVars, callVars, stftVars, periodVars, assignVars, maskVars, origVars>>

RunNext == RepetRun \/ SetMixture

\* ------------------------------------------------------ repeating period

\* the longest beat spectrum and its largest value
MaxBeatLen == 4
MaxBeat == 2

PeriodIdle ==
    /\ beat_spectrum = <<>>
    /\ min_period = 0
    /\ max_period = 0
    /\ period = 0
    /\ periodPc = "idle"

\* FindRepeatingPeriod(beat_spectrum, min_period, max_period)
PeriodInit ==
    /\ \E n \in 2..MaxBeatLen : beat_spectrum \in [1..n -> 0..MaxBeat]
    /\ min_period \in 1..MaxBeatLen
    /\ max_period \in 1..MaxBeatLen
    /\ period = 0
    /\ periodPc = "start"

\* s[lo:hi] of a vector, s[1] being element 0
PySlice(s, lo, hi) ==
    LET a == SliceBound(lo, Len(s))
        b == SliceBound(hi, Len(s))
    IN  [i \in 1..Max(b - a, 0) |-> s[a + i]]

\* the period taken without discarding lag 0
FindRepeatingPeriodWithLag0(b, lo, hi) ==
    ArgMax(<<PySlice(b, lo - 1, hi)>>) + lo

\* lines 353-355: b[1:], then [min_period - 1 : max_period], then the
\* first largest element's index plus min_period
FindRepeatingPeriod(b, lo, hi) ==
    ArgMax(<<PySlice(PySlice(b, 1, Len(b)), lo - 1, hi)>>) + lo

\* np.argmax of an empty vector raises ValueError
PeriodSliceEmpty(b, lo, hi) == PySlice(PySlice(b, 1, Len(b)), lo - 1, hi) = <<>>

FindPeriod ==
    /\ periodPc = "start"
    /\ IF PeriodSliceEmpty(beat_spectrum, min_period, max_period)
          THEN /\ periodPc' = "raised"
               /\ UNCHANGED period
          ELSE /\ period' = FindRepeatingPeriod(beat_spectrum, min_period, max_period)
               /\ periodPc' = "returned"
    /\ UNCHANGED <<beat_spectrum, min_period, max_period,
                   duetVars, peakVars, bufVars, repVars, smoothVars, histVars, callVars, stftVars, runVars, assignVars, maskVars, origVars>>

PeriodNext == FindPeriod

\* ------------------------------------------------- DUET: source assignment

\* the most bins of the mask loop when the scores are kept
MaxAssignBins == 1

AssignIdle ==
    /\ scoreAt = <<>>
    /\ assignBest = <<>>
    /\ assignInd = <<>>
    /\ assignIdx = 0
    /\ assignPc = "idle"

AssignBins == 1..MaxAssignBins

\* lines 171-172 with the scores of line 174 of all N sources
AssignInit ==
    /\ \E n \in 1..MaxSources : scoreAt \in [1..n -> [AssignBins -> Scores]]
    /\ assignBest = [b \in AssignBins |-> Inf]
    /\ assignInd = [b \in AssignBins |-> 0]
    /\ assignIdx = 0
    /\ assignPc = "loop"

\* one pass of the loop of lines 173-177
AssignStep ==
    /\ assignPc = "loop"
    /\ assignIdx < Len(scoreAt)
    /\ LET score == scoreAt[assignIdx + 1]
           mask == ScoreMask(score, assignBest)
       IN  /\ assignInd' = [b \in AssignBins |->
                               IF mask[b] THEN assignIdx ELSE assignInd[b]]
           /\ assignBest' = [b \in AssignBins |->
                                IF mask[b] THEN score[b] ELSE assignBest[b]]
    /\ assignIdx' = assignIdx + 1
    /\ assignPc' = IF assignIdx + 1 < Len(scoreAt) THEN "loop" ELSE "done"
    /\ UNCHANGED <<scoreAt,
                   duetVars, peakVars, bufVars, repVars, smoothVars, histVars, callVars, stftVars, runVars, periodVars, maskVars, origVars>>

AssignNext == AssignStep

\* ------------------------------------------------- REPET: repeating mask

\* the most frames of the spectrogram and its largest magnitude
MaxLt == 3
MaxMag == 1

\* the numbers of frequency bins
FreqCounts == {1, 2}

MaskIdle ==
    /\ magV = <<>>
    /\ repP = 0
    /\ softMask = <<>>
    /\ maskPc = "idle"

\* ComputeRepeatingMaskBeat(V, p): a magnitude spectrogram and a period
MaskInit ==
    /\ \E lf \in FreqCounts, lt \in 1..MaxLt :
          magV \in Matrices(lf, lt, {Rat(v, 1) : v \in 0..MaxMag})
    /\ repP \in 1..(MaxLt + 1)
    /\ softMask = <<>>
    /\ maskPc = "start"

\* the small positive constant of the mask quotient
EPSILON == Rat(1, 16)

\* r = np.ceil(float(Lt) / p)
NumPeriods(V, p) == Ceil(NumCols(V), p)

\* np.hstack([V, nan * zeros((Lf, r * p - Lt))]) at (f, t), 0-based
PaddedAt(V, p, f, t) == IF t < NumCols(V) THEN At(V, f, t) ELSE NaN

\* np.reshape(W.T, (r, Lf * p)) at (k, c): element k * Lf * p + c of the
\* transpose read row by row, which is frame t and bin f of the padded array
SegmentAt(V, p, k, c) ==
    LET flat == k * NumRows(V) * p + c
    IN  PaddedAt(V, p, flat % NumRows(V), flat \div NumRows(V))

RECURSIVE RatSort(_)
RatSort(s) ==
    IF s = <<>> THEN <<>>
    ELSE LET m == CHOOSE j \in 1..Len(s) : \A k \in 1..Len(s) : RatLeq(s[j], s[k])
         IN  <<s[m]>> \o RatSort([k \in 1..(Len(s) - 1) |->
                                     IF k < m THEN s[k] ELSE s[k + 1]])

\* np.median of a vector: the middle value, the mean of the two middle
\* values for an even count, NaN for no value or with a NaN among them
Median(s) ==
    IF s = <<>> \/ \E k \in 1..Len(s) : s[k] = NaN THEN NaN
    ELSE LET o == RatSort(s)
             n == Len(s)
         IN  IF n % 2 = 1 THEN o[(n + 1) \div 2]
             ELSE RatDiv(RatAdd(o[n \div 2], o[n \div 2 + 1]), <<2, 1>>)

\* a median that takes every row of the reshaped array for every column
MedianOfAllRows(V, p, c) ==
    Median([k \in 1..NumPeriods(V, p) |-> SegmentAt(V, p, k - 1, c)])

\* np.hstack([W1, W2]) at column c: the median of r rows for the columns
\* below Lf * (Lt - (r - 1) * p), of the first r - 1 rows for the others
MedianAt(V, p, c) ==
    LET r == NumPeriods(V, p)
        rows == IF c < NumRows(V) * (NumCols(V) - (r - 1) * p) THEN r ELSE r - 1
    IN  Median([k \in 1..rows |-> SegmentAt(V, p, k - 1, c)])

\* np.reshape(np.tile(W, (r, 1)), (r * p, Lf)).T at (f, t)
RepeatingModel(V, p, f, t) ==
    MedianAt(V, p, (t * NumRows(V) + f) % (NumRows(V) * p))

\* np.min of two floats: NaN when one of them is
FloatMin(a, b) ==
    IF a = NaN \/ b = NaN THEN NaN ELSE IF RatLeq(a, b) THEN a ELSE b

\* M = (min(W, V) + EPSILON) / (V + EPSILON)
ComputeRepeatingMaskBeat(V, p) ==
    [i \in 1..NumRows(V) |-> [j \in 1..NumCols(V) |->
        LET w == FloatMin(RepeatingModel(V, p, i - 1, j - 1), V[i][j])
        IN  IF w = NaN THEN NaN
            ELSE RatDiv(RatAdd(w, EPSILON), RatAdd(V[i][j], EPSILON))]]

ComputeMask ==
    /\ maskPc = "start"
    /\ softMask' = ComputeRepeatingMaskBeat(magV, repP)
    /\ maskPc' = "returned"
    /\ UNCHANGED <<magV, repP,
                   duetVars, peakVars, bufVars, repVars, smoothVars, histVars, callVars, stftVars, runVars, periodVars, assignVars, origVars>>

MaskNext == ComputeMask

\* ------------------------------------------- Repet ORIGINAL: the period

\* the longest period argument in seconds
MaxSeconds == 2

OrigIdle ==
    /\ periodArg = <<>>
    /\ Period = <<>>
    /\ MinPeriod = <<>>
    /\ MaxPeriod = <<>>
    /\ BeatSpectrum = <<>>
    /\ RepeatingPeriod = <<>>
    /\ origPc = "idle"

\* an optional argument: <<>> is None, <<v>> the value v
Optional(S) == {<<>>} \cup {<<v>> : v \in S}

\* _updatePeriod: ceil((period * SampleRate + WindowLength / WindowOverlap
\* - 1) / WindowOverlap), the inner quotient of two integers
UpdatePeriod(seconds, fs, winLen, ovp) ==
    Ceil(seconds * fs + winLen \div ovp - 1, ovp)

\* Repet(audioSignal, Type=ORIGINAL, MinPeriod, MaxPeriod, Period): every
\* argument becomes an attribute first (self.__dict__.update(locals()));
\* without a Period the range is converted to frames, with one only the
\* Period is
OrigInit ==
    /\ periodArg \in Optional(1..MaxSeconds)
    /\ \E fs \in 1..2, ovp \in 1..2 :
       \E lo \in Optional(1..MaxSeconds), hi \in Optional(1..MaxSeconds) :
          IF periodArg = <<>>
             THEN /\ lo # <<>> /\ hi # <<>>
                  /\ Period = <<>>
                  /\ MinPeriod = <<UpdatePeriod(lo[1], fs, 2 * ovp, ovp)>>
                  /\ MaxPeriod = <<UpdatePeriod(hi[1], fs, 2 * ovp, ovp)>>
             ELSE /\ Period = <<UpdatePeriod(periodArg[1], fs, 2 * ovp, ovp)>>
                  /\ MinPeriod = lo
                  /\ MaxPeriod = hi
    /\ \E n \in 2..MaxBeatLen : BeatSpectrum \in [1..n -> 0..MaxBeat]
    /\ RepeatingPeriod = <<>>
    /\ origPc = "constructed"

\* _doRepetOriginal: FindRepeatingPeriod(BeatSpectrum, MinPeriod, MaxPeriod)
\* whatever Period is; min_period - 1 raises TypeError for None, a slice
\* up to None runs to the end
DoRepetOriginal(b, given, lo, hi) ==
    IF lo = <<>> THEN Raised
    ELSE LET top == IF hi = <<>> THEN Len(b) ELSE hi[1] IN
         IF PeriodSliceEmpty(b, lo[1], top) THEN Raised
         ELSE Returned(FindRepeatingPeriod(b, lo[1], top))

\* Run of type ORIGINAL up to the period handed to the mask
RunOriginal ==
    /\ origPc = "constructed"
    /\ LET r == DoRepetOriginal(BeatSpectrum, Period, MinPeriod, MaxPeriod) IN
          IF r.ok
             THEN /\ RepeatingPeriod' = <<r.value>>
                  /\ origPc' = "ran"
             ELSE /\ origPc' = "raised"
                  /\ UNCHANGED RepeatingPeriod
    /\ UNCHANGED <<periodArg, Period, MinPeriod, MaxPeriod, BeatSpectrum,
                   duetVars, peakVars, bufVars, repVars, smoothVars, histVars, callVars, stftVars, runVars, periodVars, assignVars, maskVars>>

OrigNext == RunOriginal

\* --------------------------------------------------------- specifications

InitDuet == DuetInit /\ PeakIdle /\ BufIdle /\ RepetIdle /\ SmoothIdle /\ HistIdle /\ CallIdle /\ StftIdle /\ RunIdle /\ PeriodIdle /\ AssignIdle /\ MaskIdle /\ OrigIdle
SpecDuet == InitDuet /\ [][DuetNext]_vars

InitPeaks1 == PeakInit1 /\ DuetIdle /\ BufIdle /\ RepetIdle /\ SmoothIdle /\ HistIdle /\ CallIdle /\ StftIdle /\ RunIdle /\ PeriodIdle /\ AssignIdle /\ MaskIdle /\ OrigIdle
SpecPeaks1 == InitPeaks1 /\ [][PeakNext1]_vars

InitPeaks2 == PeakInit2 /\ DuetIdle /\ BufIdle /\ RepetIdle /\ SmoothIdle /\ HistIdle /\ CallIdle /\ StftIdle /\ RunIdle /\ PeriodIdle /\ AssignIdle /\ MaskIdle /\ OrigIdle
SpecPeaks2 == InitPeaks2 /\ [][PeakNext2]_vars

InitBuf2 == BufInit2 /\ DuetIdle /\ PeakIdle /\ RepetIdle /\ SmoothIdle /\ HistIdle /\ CallIdle /\ StftIdle /\ RunIdle /\ PeriodIdle /\ AssignIdle /\ MaskIdle /\ OrigIdle
SpecBuf2 == InitBuf2 /\ [][BufNext2]_vars

InitBuf1 == BufInit1 /\ DuetIdle /\ PeakIdle /\ RepetIdle /\ SmoothIdle /\ HistIdle /\ CallIdle /\ StftIdle /\ RunIdle /\ PeriodIdle /\ AssignIdle /\ MaskIdle /\ OrigIdle
SpecBuf1 == InitBuf1 /\ [][BufNext1]_vars

InitRepet == RepetInit /\ DuetIdle /\ PeakIdle /\ BufIdle /\ SmoothIdle /\ HistIdle /\ CallIdle /\ StftIdle /\ RunIdle /\ PeriodIdle /\ AssignIdle /\ MaskIdle /\ OrigIdle
SpecRepet == InitRepet /\ [][RepetNext]_vars

InitPcm == BufInitPcm /\ DuetIdle /\ PeakIdle /\ RepetIdle /\ SmoothIdle /\ HistIdle /\ CallIdle /\ StftIdle /\ RunIdle /\ PeriodIdle /\ AssignIdle /\ MaskIdle /\ OrigIdle
SpecPcm == InitPcm /\ [][BufNextPcm]_vars

InitSmooth == SmoothInit /\ DuetIdle /\ PeakIdle /\ BufIdle /\ RepetIdle /\ HistIdle /\ CallIdle /\ StftIdle /\ RunIdle /\ PeriodIdle /\ AssignIdle /\ MaskIdle /\ OrigIdle
SpecSmooth == InitSmooth /\ [][SmoothNext]_vars

InitHist == HistInit /\ DuetIdle /\ PeakIdle /\ BufIdle /\ RepetIdle /\ SmoothIdle /\ CallIdle /\ StftIdle /\ RunIdle /\ PeriodIdle /\ AssignIdle /\ MaskIdle /\ OrigIdle
SpecHist == InitHist /\ [][HistNext]_vars

InitCall == CallInit /\ DuetIdle /\ PeakIdle /\ BufIdle /\ RepetIdle /\ SmoothIdle /\ HistIdle /\ StftIdle /\ RunIdle /\ PeriodIdle /\ AssignIdle /\ MaskIdle /\ OrigIdle
SpecCall == InitCall /\ [][CallNext]_vars

InitStft == StftInit /\ DuetIdle /\ PeakIdle /\ BufIdle /\ RepetIdle /\ SmoothIdle /\ HistIdle /\ CallIdle /\ RunIdle /\ PeriodIdle /\ AssignIdle /\ MaskIdle /\ OrigIdle
SpecStft == InitStft /\ [][StftNext]_vars

InitRun == RunInit /\ DuetIdle /\ PeakIdle /\ BufIdle /\ RepetIdle /\ SmoothIdle /\ HistIdle /\ CallIdle /\ StftIdle /\ PeriodIdle /\ AssignIdle /\ MaskIdle /\ OrigIdle
SpecRun == InitRun /\ [][RunNext]_vars

InitPeriod == PeriodInit /\ DuetIdle /\ PeakIdle /\ BufIdle /\ RepetIdle /\ SmoothIdle /\ HistIdle /\ CallIdle /\ StftIdle /\ RunIdle /\ AssignIdle /\ MaskIdle /\ OrigIdle
SpecPeriod == InitPeriod /\ [][PeriodNext]_vars

InitAssign == AssignInit /\ DuetIdle /\ PeakIdle /\ BufIdle /\ RepetIdle /\ SmoothIdle /\ HistIdle /\ CallIdle /\ StftIdle /\ RunIdle /\ PeriodIdle /\ MaskIdle /\ OrigIdle
SpecAssign == InitAssign /\ [][AssignNext]_vars

InitMask == MaskInit /\ DuetIdle /\ PeakIdle /\ BufIdle /\ RepetIdle /\ SmoothIdle /\ HistIdle /\ CallIdle /\ StftIdle /\ RunIdle /\ PeriodIdle /\ AssignIdle /\ OrigIdle
SpecMask == InitMask /\ [][MaskNext]_vars

InitOrig == OrigInit /\ DuetIdle /\ PeakIdle /\ BufIdle /\ RepetIdle /\ SmoothIdle /\ HistIdle /\ CallIdle /\ StftIdle /\ RunIdle /\ PeriodIdle /\ AssignIdle /\ MaskIdle
SpecOrig == InitOrig /\ [][OrigNext]_vars

\* ----------------------------------------------------------------- claims

\* C1: when duet() has built its masked spectrograms, at every bin (k, t)
\* with k > 0 exactly one of the N masks is 1, and the DC row of every Xm
\* is zero.
C1_MasksPartition ==
    duetPc = "returned" =>
        /\ Len(Xm) = numSources
        /\ \A b \in Bins :
              Cardinality({s \in 1..numSources : Xm[s][b[1]][b[2]] = 1}) = 1
        /\ \A s \in 1..numSources : \A t \in Frames : Xm[s][0][t] = 0

\* two or more sources, and both of them own a bin
C1_Witness ==
    /\ duetPc = "returned"
    /\ numSources >= 2
    /\ \E b1, b2 \in Bins : Xm[1][b1[1]][b1[2]] = 1 /\ Xm[2][b2[1]][b2[2]] = 1

\* C2: after Repet.Run(), MakeAudioSignals() returns [background,
\* foreground] and background + foreground is the mixture, sample by
\* sample on every channel.
C2_BackgroundPlusForeground ==
    /\ repPc # "raised"
    /\ repPc = "made" =>
          /\ signals = <<bkgd, fgnd>>
          /\ NumRows(fgnd.audio_data) = NumRows(Mixture.audio_data)
          /\ NumCols(fgnd.audio_data) = NumCols(Mixture.audio_data)
          /\ \A r \in 1..NumRows(Mixture.audio_data) :
                \A c \in 1..NumCols(Mixture.audio_data) :
                   bkgd.audio_data[r][c] + fgnd.audio_data[r][c]
                      = Mixture.audio_data[r][c]

\* C3: when the 1-D peak finder returns, its indices are pairwise distinct,
\* each indexes an input value >= the threshold, any two are at least
\* min_dist apart, and the result is sorted ascending.
C3_Peaks1Correct ==
    peakPc = "returned" =>
        /\ \A j, k \in 1..Len(Pi) : j # k => Pi[j] # Pi[k]
        /\ \A k \in 1..Len(Pi) : At(input, 0, Pi[k]) >= min_thr
        /\ \A j, k \in 1..Len(Pi) :
              j # k => (Pi[j] - Pi[k] >= min_dist \/ Pi[k] - Pi[j] >= min_dist)
        /\ \A j, k \in 1..Len(Pi) : j < k => Pi[j] <= Pi[k]

Dist(a, b) == IF a >= b THEN a - b ELSE b - a

\* C4: when find_peaks2 returns, its K (row, col) pairs are pairwise
\* distinct, each addresses an input entry >= the threshold, and any two
\* are more than d_r rows or more than d_c columns apart.
C4_Peaks2Correct ==
    peakPc = "returned" =>
        /\ Len(Pi) = max_num
        /\ \A j, k \in 1..Len(Pi) : j # k => Pi[j] # Pi[k]
        /\ \A k \in 1..Len(Pi) : At(input, Pi[k][1], Pi[k][2]) >= min_thr
        /\ \A j, k \in 1..Len(Pi) :
              j # k => \/ Dist(Pi[j][1], Pi[k][1]) > min_dist[1]
                       \/ Dist(Pi[j][2], Pi[k][2]) > min_dist[2]

\* the entries of the input that pass the threshold: >= theta and nonzero
Passing == {rc \in Cells(input) :
               At(input, rc[1], rc[2]) >= min_thr /\ At(input, rc[1], rc[2]) # 0}

\* C5: the finder raises the not-enough-peaks error whenever fewer than K
\* entries of the input pass the threshold; no peak set is returned then.
C5_RaisesWhenTooFewPeaks ==
    (peakPc \notin {"idle", "start"} /\ Cardinality(Passing) < max_num)
        => peakPc = "raised"

\* sample i (1-based) of channel ch, 0 past the end of the buffer
Ext(which, x, ch, i) ==
    IF i <= SamplesIn(which, x) THEN SampleAt(which, x, ch, i) ELSE 0

SameFormat(which, a, b) ==
    /\ num_channels(which, a) = num_channels(which, b)
    /\ a.sample_rate = b.sample_rate

\* the array x holds, on every channel, f(a[i], b[i]) of the zero-extended
\* operands
IsPointwise(which, x, a, b, sign) ==
    /\ ChannelsIn(which, x) = ChannelsIn(which, a)
    /\ SamplesIn(which, x) = Max(SamplesIn(which, a), SamplesIn(which, b))
    /\ \A ch \in 1..ChannelsIn(which, x) : \A i \in 1..SamplesIn(which, x) :
          SampleAt(which, x, ch, i)
             = Ext(which, a, ch, i) + sign * Ext(which, b, ch, i)

\* C6: for two buffers of equal channel count and sample rate and any
\* sample counts, a - b returns a buffer whose sample i on each channel is
\* a[i] - b[i], a sample missing from the shorter operand counting as 0.
C6_SubIsPointwise ==
    (bufOp = "sub" /\ SameFormat(impl, selfSig, otherSig)) =>
        /\ bufPc = "returned"
        /\ IsPointwise(impl, result.audio_data, selfSig.audio_data,
                       otherSig.audio_data, -1)

\* C7: for two buffers of equal channel count and sample rate, a + b
\* succeeds with max(m, n) samples per channel, sample i being a[i] + b[i]
\* of the zero-extended operands; a + b = b + a; no operand is modified.
C7_AddIsPointwise ==
    (bufOp = "add" /\ SameFormat(impl, selfSig, otherSig)) =>
        /\ bufPc = "returned"
        /\ IsPointwise(impl, result.audio_data, selfSig.audio_data,
                       otherSig.audio_data, 1)
        /\ AddSignals(impl, otherSig, selfSig) = Returned(result)
        /\ <<selfSig, otherSig>> = before

\* C8: +, -, += and -= fail whenever the two buffers differ in channel
\* count or in sample rate, and then no operand is modified and no result
\* is produced.
C8_ArithFailsOnMismatch ==
    (bufOp \in {"add", "sub", "iadd", "isub"}
         /\ ~SameFormat(impl, before[1], before[2])) =>
        /\ bufPc = "raised"
        /\ <<selfSig, otherSig>> = before
        /\ result = <<>>

\* C9: concat fails and leaves self unchanged when the channel counts
\* differ; otherwise self keeps its channel count, its sample count is the
\* sum of the two, and other's samples follow self's on every channel.
C9_ConcatAppendsInTime ==
    bufOp = "concat" =>
        LET a == before[1].audio_data
            b == before[2].audio_data
            x == selfSig.audio_data
        IN  IF num_channels(impl, before[1]) # num_channels(impl, before[2])
               THEN bufPc = "raised" /\ selfSig = before[1]
               ELSE /\ bufPc = "returned"
                    /\ ChannelsIn(impl, x) = ChannelsIn(impl, a)
                    /\ SamplesIn(impl, x) = SamplesIn(impl, a) + SamplesIn(impl, b)
                    /\ \A ch \in 1..ChannelsIn(impl, a) :
                          /\ \A i \in 1..SamplesIn(impl, a) :
                                SampleAt(impl, x, ch, i) = SampleAt(impl, a, ch, i)
                          /\ \A i \in 1..SamplesIn(impl, b) :
                                SampleAt(impl, x, ch, SamplesIn(impl, a) + i)
                                   = SampleAt(impl, b, ch, i)

\* C10: get_channel(n) returns the samples of channel n for 1 <= n <=
\* num_channels and fails, returning nothing, for every other integer n.
C10_GetChannelOneBased ==
    bufOp = "get_channel" =>
        LET x == selfSig.audio_data IN
        IF 1 <= chanArg /\ chanArg <= ChannelsIn(impl, x)
           THEN /\ bufPc = "returned"
                /\ result = [t \in 1..SamplesIn(impl, x) |->
                                SampleAt(impl, x, chanArg, t)]
           ELSE bufPc = "raised" /\ result = <<>>

\* the written sample the claim prescribes for the float sample s
ClampedPcm(s) == Max(Int16Min, Min(Trunc(RatTimes(s, 2 ^ 15)), Int16Max))

\* C11: write_audio_to_file writes, for every peak-normalized sample s in
\* [-1, 1], the 16-bit integer clamp(s * 2^15, -32768, 32767): no value
\* wraps around, and full-scale s = 1 is written as 32767.
C11_WriteClampsToInt16 ==
    bufOp = "write_audio_to_file" =>
        LET x == selfSig.audio_data IN
        /\ bufPc = "returned"
        /\ \A ch \in 1..NumRows(x) : \A t \in 1..NumCols(x) :
              result[t][ch] = ClampedPcm(x[ch][t])

C20_TruncateKeepsFirstSamples ==
    bufOp = "truncate_samples" =>
        LET old == before[1].audio_data IN
        IF chanArg <= NumCols(old)
           THEN /\ bufPc = "returned"
                /\ selfSig.audio_data =
                      [ch \in 1..NumRows(old) |-> [t \in 1..chanArg |-> old[ch][t]]]
           ELSE bufPc = "raised" /\ selfSig = before[1]

\* C14: for every R x C matrix and every scalar kernel size k >= 1,
\* twoDsmooth returns a matrix of the same shape, and a constant input
\* comes back as the same constant matrix.
C14_SmoothKeepsShapeAndConstants ==
    smoothPc \notin {"idle", "start"} =>
        /\ smoothPc = "returned"
        /\ NumRows(SMAT) = NumRows(Mat)
        /\ NumCols(SMAT) = NumCols(Mat)
        /\ (\A r \in 1..NumRows(Mat) : \A c \in 1..NumCols(Mat) : Mat[r][c] = Mat[1][1])
              => SMAT = Mat

Clamp(i, lo, hi) == Max(lo, Min(i, hi))

\* the mean of the (2h+1) x (2h+1) neighbourhood of (i, j), 0-based, the
\* indices clamped to the matrix
ReplicatedMean(M, h, i, j) ==
    RatDiv(RatSum([u \in 1..(2 * h + 1) |->
               RatSum([v \in 1..(2 * h + 1) |->
                   Entry(M, Clamp(i + u - h - 1, 0, NumRows(M) - 1),
                            Clamp(j + v - h - 1, 0, NumCols(M) - 1))])]),
           <<(2 * h + 1) * (2 * h + 1), 1>>)

\* C15: with a k x k averaging kernel, k odd, twoDsmooth pads by edge
\* replication on all four edges and corners: every output entry is the
\* mean of the clamped k x k neighbourhood of the input.
C15_SmoothReplicatesEdges ==
    (smoothPc \notin {"idle", "start"} /\ Kernel % 2 = 1) =>
        /\ smoothPc = "returned"
        /\ \A i \in 0..(NumRows(Mat) - 1) : \A j \in 0..(NumCols(Mat) - 1) :
              Entry(SMAT, i, j) = ReplicatedMean(Mat, Kernel \div 2, i, j)

\* C13: in duet() the histogram has max(H) > 0 after the build step, and
\* after each of the two normalizations (before and after the smoothing)
\* its maximum is exactly 1 and every entry lies in [0, 1].
C13_HistogramNormalized ==
    /\ histPc # "raised"
    /\ histPc = "built" => RatLess(<<0, 1>>, RatMax(hist))
    /\ histPc \in {"normalized", "renormalized"} =>
          /\ RatMax(hist) = <<1, 1>>
          /\ \A r \in 1..NumRows(hist) : \A c \in 1..NumCols(hist) :
                /\ hist[r][c] # NaN
                /\ RatLeq(<<0, 1>>, hist[r][c])
                /\ RatLeq(hist[r][c], <<1, 1>>)

\* C16: duet on a single-channel input is rejected with an
\* invalid-channel-count error (a ValueError) raised when the spectrograms
\* are computed, before any histogram, peak, mask or output signal exists.
C16_MonoRejected ==
    (NumMixChannels(mixture) = 1 /\ callPc \notin {"idle", "called"}) =>
        /\ callPc = "raised"
        /\ callError = "ValueError"
        /\ produced \cap {"histogram", "peaks", "masks", "xhat"} = {}

\* C17: iSTFT on an AudioSignal that holds no spectrogram data raises an
\* error and leaves the stored audio data and time vector as they were.
C17_IstftWithoutStftRaises ==
    (stftOp = "istft" /\ stft_data = NoStft) =>
        /\ stftPc = "raised"
        /\ <<audio, time>> = stftBefore
        /\ audio.content = "original"

\* iSTFT was called first, on an object without spectrogram data
C17_Witness ==
    /\ stftOp = "istft"
    /\ stftCalls = 0
    /\ stft_data = NoStft
    /\ stftPc = "raised"

\* C18: for a 2-channel buffer, STFT and then iSTFT on the same
\* AudioSignal leaves a buffer with exactly 2 channels and exactly the
\* original number of samples per channel.
C18_RoundTripKeepsShape ==
    (stftOp = "istft" /\ stftCalls = 1 /\ nChannels = 2) =>
        /\ stftPc = "done"
        /\ audio.channels = 2
        /\ audio.samples = stftBefore[1].samples

\* C19: the result of Run depends only on the input signal and the
\* constructor parameters: a second Run of the same instance on the same
\* signal (also after the signal was replaced and restored) gives the
\* same mask as the first Run, which is the Run of a fresh instance.
C19_RunsAgree ==
    \A i, j \in DOMAIN runs :
        runs[i].mix = runs[j].mix => runs[i].mask = runs[j].mask

\* C30: every STFT call overwrites the stored spectrogram: after each call
\* it holds exactly one slice per audio channel, whatever was stored by
\* the calls before.
C30_StftOverwrites ==
    (stftOp = "stft" /\ stftCalls >= 1) =>
        /\ stft_data # NoStft
        /\ stft_data.channels = audio.channels
        /\ stft_data.frames = StftFrames(audio.samples)

\* C21 (as stated): after the high-pass step every mask row k with
\* 0 <= k < fc, the DC row included, equals 1, and every row k >= fc is
\* left as the repeating-mask step computed it.
C21_HighPassIncludesDc ==
    \A i \in DOMAIN runs :
        \A k \in DOMAIN runs[i].mask :
            /\ k < runs[i].cutoff => runs[i].mask[k] = 1
            /\ k >= runs[i].cutoff => runs[i].mask[k] = maskOf[runs[i].mix][k]

\* C21 (amended): after the high-pass step every mask row k with
\* 1 <= k < fc equals 1; the DC row and every row k >= fc are left as the
\* repeating-mask step computed them.
C21_HighPassSkipsDc ==
    \A i \in DOMAIN runs :
        \A k \in DOMAIN runs[i].mask :
            /\ (1 <= k /\ k < runs[i].cutoff) => runs[i].mask[k] = 1
            /\ (k = 0 \/ k >= runs[i].cutoff) =>
                  runs[i].mask[k] = maskOf[runs[i].mix][k]

\* a Run whose cutoff covers bin 1, on a mask that is 0 at DC and at bin 1
C21_Witness ==
    \E i \in DOMAIN runs :
        /\ runs[i].cutoff >= 2
        /\ maskOf[runs[i].mix][0] = 0
        /\ maskOf[runs[i].mix][1] = 0
        /\ runs[i].mask[1] = 1

\* the lags the search range names
C22_InRange ==
    /\ 1 <= min_period
    /\ min_period <= max_period
    /\ max_period < Len(beat_spectrum)

\* C22: for 1 <= p_min <= p_max < len(b) the returned period p lies in
\* [p_min, p_max], b[p] >= b[l] for every lag l of the range, lag 0 is
\* never returned, and of several largest lags the smallest is returned.
C22_PeriodIsFirstMaximum ==
    (periodPc # "start" /\ C22_InRange) =>
        /\ periodPc = "returned"
        /\ period >= 1
        /\ period \in min_period..max_period
        /\ \A l \in min_period..max_period :
              /\ beat_spectrum[period + 1] >= beat_spectrum[l + 1]
              /\ beat_spectrum[l + 1] = beat_spectrum[period + 1] => period <= l

\* a period was returned from a range of several lags in which the
\* largest value occurs twice, and lag 0 holds a larger value still
C22_Witness ==
    /\ periodPc = "returned"
    /\ C22_InRange
    /\ min_period < max_period
    /\ \E l \in (period + 1)..max_period :
          beat_spectrum[l + 1] = beat_spectrum[period + 1]
    /\ beat_spectrum[1] > beat_spectrum[period + 1]

\* C23: after the mask loop every bin is assigned to a source whose score
\* at the bin is the least of all N sources, and of several sources with
\* the least score the lowest index is the one assigned.
C23_LowestMinimalSource ==
    assignPc = "done" =>
        \A b \in AssignBins :
            LET i == assignInd[b] IN
            /\ i \in 0..(Len(scoreAt) - 1)
            /\ \A j \in 0..(Len(scoreAt) - 1) :
                  /\ scoreAt[i + 1][b] <= scoreAt[j + 1][b]
                  /\ scoreAt[j + 1][b] = scoreAt[i + 1][b] => i <= j

\* three sources, the least score at a bin shared by the last two
C23_Witness ==
    /\ assignPc = "done"
    /\ Len(scoreAt) >= 3
    /\ \E b \in AssignBins :
          /\ assignInd[b] = 1
          /\ scoreAt[3][b] = scoreAt[2][b]
          /\ scoreAt[1][b] > scoreAt[2][b]

\* C24: a pick of the 1-D peak finder at index i suppresses exactly the
\* entries j with |j - i| <= d: these become 0, the picked entry among
\* them, and every other entry keeps its value.
C24_SuppressesExactWindow ==
    [][peakPc = "loop" =>
          LET i == Pi'[peakIdx + 1] IN
          \A j \in 0..(NumCols(data) - 1) :
              At(data', 0, j) = IF Dist(j, i) <= min_dist THEN 0
                                ELSE At(data, 0, j)]_vars

\* C25: when the thresholded data is all zero after j < K picks, the 1-D
\* finder returns exactly the j picked indices: j entries, each of them
\* the index of an input entry that passed the threshold.
C25_ReturnsOnlyPicked ==
    (peakPc = "returned" /\ peakIdx < max_num) =>
        /\ Len(Pi) = peakIdx
        /\ \A k \in 1..Len(Pi) : <<0, Pi[k]>> \in Passing

\* exactly K entries pass the threshold, pairwise more than min_dist + 1
\* apart
C26_SpreadPeaks ==
    /\ Cardinality(Passing) = max_num
    /\ \A a, b \in Passing : a # b => Dist(a[2], b[2]) > min_dist + 1

\* C26: when exactly K entries pass the threshold and they are pairwise
\* more than min_dist + 1 apart, the 1-D finder raises no error and
\* returns exactly those K indices in ascending order.
C26_FindsSpreadPeaks ==
    C26_SpreadPeaks =>
        /\ peakPc # "raised"
        /\ peakPc = "returned" =>
              /\ Len(Pi) = max_num
              /\ {Pi[k] : k \in 1..Len(Pi)} = {rc[2] : rc \in Passing}
              /\ \A j, k \in 1..Len(Pi) : j < k => Pi[j] < Pi[k]

\* the sum of all entries of the built histogram (sums of integer weights)
C27_HistMass == SumMat([r \in 1..NumRows(hist) |-> [c \in 1..NumCols(hist) |-> hist[r][c][1]]])

\* the points of the call whose estimates lie in the closed ranges
C27_InClosed(k) ==
    /\ adparam.a_min <= tfPoints[k].alpha /\ tfPoints[k].alpha <= adparam.a_max
    /\ adparam.d_min <= tfPoints[k].delta /\ tfPoints[k].delta <= adparam.d_max

\* the points of the call whose estimates lie strictly inside the ranges
C27_InOpen(k) ==
    /\ adparam.a_min < tfPoints[k].alpha /\ tfPoints[k].alpha < adparam.a_max
    /\ adparam.d_min < tfPoints[k].delta /\ tfPoints[k].delta < adparam.d_max

\* C27 (as stated): the mass of the histogram before normalization is the
\* sum of the weights of the points with alpha_min <= alpha <= alpha_max
\* and delta_min <= delta <= delta_max.
C27_MassOfClosedRanges ==
    histPc = "built" =>
        C27_HistMass = SumSeq([k \in 1..Len(tfPoints) |->
                                  IF C27_InClosed(k) THEN tfPoints[k].tfw ELSE 0])

\* C27 (amended): the mass of the histogram before normalization is the
\* sum of the weights of the points with alpha_min < alpha < alpha_max
\* and delta_min < delta < delta_max; a point on a border adds nothing.
C27_MassOfOpenRanges ==
    histPc = "built" =>
        C27_HistMass = SumSeq([k \in 1..Len(tfPoints) |->
                                  IF C27_InOpen(k) THEN tfPoints[k].tfw ELSE 0])

\* a built histogram of a weighted point inside the ranges and a weighted
\* point on a border
C27_Witness ==
    /\ histPc = "built"
    /\ \E j, k \in 1..Len(tfPoints) :
          /\ C27_InOpen(j) /\ tfPoints[j].tfw > 0
          /\ C27_InClosed(k) /\ ~C27_InOpen(k) /\ tfPoints[k].tfw > 0

\* the frames t' < T congruent to frame t modulo the period, ascending
C28_Phase(t) ==
    LET n == (NumCols(magV) - 1 - (t % repP)) \div repP + 1
    IN  [k \in 1..n |-> (t % repP) + (k - 1) * repP]

\* the median of V[f, t'] over the frames t' of the phase of t
C28_Model(f, t) ==
    Median([k \in 1..Len(C28_Phase(t)) |-> At(magV, f, C28_Phase(t)[k])])

\* C28: for a period 1 <= p <= T the mask has the shape of V, its value
\* at (f, t) is (min(model, V) + eps) / (V + eps) with the model the
\* median of V[f, t'] over the frames t' < T congruent to t modulo p
\* (r = ceil(T / p) values for the phases below T - (r - 1) p, r - 1 for
\* the others, the padding in none), and every value lies in [0, 1].
C28_MaskIsMedianModel ==
    (maskPc = "returned" /\ repP <= NumCols(magV)) =>
        /\ NumRows(softMask) = NumRows(magV)
        /\ NumCols(softMask) = NumCols(magV)
        /\ \A f \in 0..(NumRows(magV) - 1) : \A t \in 0..(NumCols(magV) - 1) :
              LET r == Ceil(NumCols(magV), repP)
                  m == C28_Model(f, t)
                  v == At(magV, f, t)
                  w == IF RatLeq(m, v) THEN m ELSE v
              IN  /\ Len(C28_Phase(t)) =
                        IF t % repP < NumCols(magV) - (r - 1) * repP THEN r ELSE r - 1
                  /\ m # NaN
                  /\ At(softMask, f, t) = RatDiv(RatAdd(w, EPSILON), RatAdd(v, EPSILON))
                  /\ RatLeq(<<0, 1>>, At(softMask, f, t))
                  /\ RatLeq(At(softMask, f, t), <<1, 1>>)

\* a mask of two bins over three frames with period 2: the first phase has
\* two values, the second one, and the mask is below 1 somewhere
C28_Witness ==
    /\ maskPc = "returned"
    /\ NumRows(magV) = 2
    /\ NumCols(magV) = 3
    /\ repP = 2
    /\ \E f \in 0..1, t \in 0..2 : RatLess(At(softMask, f, t), <<1, 1>>)

\* C29: a Repet of type ORIGINAL constructed with a Period completes Run
\* and builds the mask with exactly that period, converted to frames;
\* constructed without one it estimates the period within
\* [MinPeriod, MaxPeriod].
C29_ExplicitPeriodIsUsed ==
    /\ (origPc # "constructed" /\ periodArg # <<>>) =>
          /\ origPc = "ran"
          /\ RepeatingPeriod = Period
    /\ (origPc = "ran" /\ periodArg = <<>>) =>
          RepeatingPeriod[1] \in MinPeriod[1]..MaxPeriod[1]

====
